---- MODULE Spec2Model ----
(***************************************************************************)
(* Model of src/index.js: a Cloudflare worker that proxies GET/HEAD        *)
(* requests to the Backblaze B2 S3-compatible API.  One incoming request   *)
(* is followed from its arrival to the response handed back to the host.   *)
(*                                                                         *)
(* Representation of JavaScript strings:                                   *)
(*   - a header name or value is the sequence of its pieces (a name is     *)
(*     the sequence of its characters, so that startsWith is computed);    *)
(*   - a path is the sequence path.split('/') of its slash-free segments   *)
(*     ("" is <<"">>, "/" is <<"","">>, "/b/k" is <<"","b","k">>);         *)
(*   - a hostname is the sequence hostname.split('.') of its labels.       *)
(***************************************************************************)
EXTENDS Integers, Sequences, FiniteSets, TLC

VARIABLES
    request,        \* the incoming request: method, url, headers
    env,            \* the worker's configuration
    pc,             \* where the handler is
    url,            \* the URL being rewritten into the upstream URL
    signedRequest,  \* what client.sign returned
    signCalls,      \* history: the calls of client.sign, in order
    fetches,        \* history: the upstream fetches issued, in order
    received,       \* history: the upstream responses received, in order
    inflight,       \* number of upstream fetches issued and not yet settled
    attempts,       \* the retry loop's counter
    response,       \* the retry loop's latest response
    finalResponse,  \* the retry loop's chosen response
    log,            \* the diagnostics written to the console, in order
    cancelled,      \* ids of the responses whose body was cancelled
    result          \* the response the handler returned

vars == <<request, env, pc, url, signedRequest, signCalls, fetches, received,
          inflight, attempts, response, finalResponse, log, cancelled, result>>

(***************************************************************************)
(* Bounds of the explored inputs.                                          *)
(***************************************************************************)
\* longest incoming path, counted in segments after the leading slash
MaxSegs == 3

(***************************************************************************)
(* Program constants (src/index.js:8-33).                                  *)
(***************************************************************************)
UNSIGNABLE_HEADERS ==
    << <<"x","-","f","o","r","w","a","r","d","e","d","-","p","r","o","t","o">>,
       <<"x","-","r","e","a","l","-","i","p">>,
       <<"a","c","c","e","p","t","-","e","n","c","o","d","i","n","g">>,
       <<"i","f","-","m","a","t","c","h">>,
       <<"i","f","-","m","o","d","i","f","i","e","d","-","s","i","n","c","e">>,
       <<"i","f","-","n","o","n","e","-","m","a","t","c","h">>,
       <<"i","f","-","r","a","n","g","e">>,
       <<"i","f","-","u","n","m","o","d","i","f","i","e","d","-","s","i","n","c","e">> >>

HTTPS_PROTOCOL == "https:"

HTTPS_PORT == "443"

RANGE_RETRY_ATTEMPTS == 3

BROWSER_CACHE_TTL_SECONDS == 2592000

(***************************************************************************)
(* String helpers.                                                         *)
(***************************************************************************)
UpperLetters == <<"A","B","C","D","E","F","G","H","I","J","K","L","M",
                  "N","O","P","Q","R","S","T","U","V","W","X","Y","Z">>

LowerLetters == <<"a","b","c","d","e","f","g","h","i","j","k","l","m",
                  "n","o","p","q","r","s","t","u","v","w","x","y","z">>

\* one character of String.prototype.toLowerCase
LowerChar(c) ==
    IF \E i \in 1..26 : UpperLetters[i] = c
    THEN LowerLetters[CHOOSE i \in 1..26 : UpperLetters[i] = c]
    ELSE c

\* header names are byte-lowercased by the Headers class
LowerName(name) == [i \in 1..Len(name) |-> LowerChar(name[i])]

\* String.prototype.startsWith
StartsWith(s, prefix) ==
    /\ Len(s) >= Len(prefix)
    /\ SubSeq(s, 1, Len(prefix)) = prefix

\* Array.prototype.includes
Includes(array, x) == \E i \in 1..Len(array) : array[i] = x

\* the decimal digits of a natural number, as a template literal prints it
RECURSIVE Digits(_)
Digits(n) ==
    LET d == <<"0","1","2","3","4","5","6","7","8","9">>[(n % 10) + 1]
    IN  IF n < 10 THEN <<d>> ELSE Digits(n \div 10) \o <<d>>

\* String(value) of a configuration value
JSString(v) == IF v.t = "undefined" THEN "undefined" ELSE v.v

Undefined == [t |-> "undefined", v |-> ""]

JSTrue == [t |-> "boolean", v |-> "true"]

StrTrue == [t |-> "string", v |-> "true"]

StrFalse == [t |-> "string", v |-> "false"]

(***************************************************************************)
(* The Headers class: a set of <<name, value>> pairs, one per name.        *)
(***************************************************************************)
HeadersHas(headers, name) == \E p \in headers : p[1] = LowerName(name)

HeadersSet(headers, name, value) ==
    {p \in headers : p[1] # LowerName(name)} \cup {<<LowerName(name), value>>}

N_range == <<"r","a","n","g","e">>

N_content_range == <<"c","o","n","t","e","n","t","-","r","a","n","g","e">>

N_Cache_Control == <<"C","a","c","h","e","-","C","o","n","t","r","o","l">>

N_cache_control == <<"c","a","c","h","e","-","c","o","n","t","r","o","l">>

N_accept == <<"a","c","c","e","p","t">>

N_if_none_match == <<"i","f","-","n","o","n","e","-","m","a","t","c","h">>

N_cf_ray == <<"c","f","-","r","a","y">>

N_cfx == <<"c","f","x">>

N_etag == <<"e","t","a","g">>

N_authorization == <<"a","u","t","h","o","r","i","z","a","t","i","o","n">>

N_x_amz_date == <<"x","-","a","m","z","-","d","a","t","e">>

N_cf_ == <<"c","f","-">>

(***************************************************************************)
(* The URL class.                                                          *)
(***************************************************************************)
DefaultPort(protocol) == IF protocol = "https:" THEN "443" ELSE "80"

\* the port setter stores the scheme's default port as the empty string
URLSetPort(u, port) ==
    [u EXCEPT !.port = IF port = DefaultPort(u.protocol) THEN "" ELSE port]

\* the protocol setter drops a port that is the new scheme's default
URLSetProtocol(u, protocol) ==
    [u EXCEPT !.protocol = protocol,
              !.port = IF u.port = DefaultPort(protocol) THEN "" ELSE u.port]

\* the pathname setter: the path of an http(s) URL always starts with "/"
URLSetPathname(u, p) ==
    [u EXCEPT !.pathname = IF Len(p) >= 2 /\ p[1] = "" THEN p ELSE <<"">> \o p]

URLSetHostname(u, h) == [u EXCEPT !.hostname = h]

\* the port the URL connects to
URLEffectivePort(u) == IF u.port = "" THEN DefaultPort(u.protocol) ELSE u.port

\* url.toString(): the serialised components, in order
URLToString(u) == <<u.protocol, u.hostname, u.port, u.pathname>>

\* path.replace(/^\//, '')
StripLeadingSlash(p) == IF Len(p) >= 2 /\ p[1] = "" THEN Tail(p) ELSE p

\* path.replace(/\/$/, '')
StripTrailingSlash(p) ==
    IF Len(p) >= 2 /\ p[Len(p)] = "" THEN SubSeq(p, 1, Len(p) - 1) ELSE p

\* path.replace(/^file\//, "")
StripFilePrefix(p) == IF Len(p) >= 2 /\ p[1] = "file" THEN Tail(p) ELSE p

\* path.replace(/^file\/[^/]+\//, "")
StripFileBucketPrefix(p) ==
    IF Len(p) >= 3 /\ p[1] = "file" /\ p[2] # ""
    THEN SubSeq(p, 3, Len(p))
    ELSE p

(***************************************************************************)
(* Responses.  id is the ordinal of the upstream fetch whose response the  *)
(* object is (or was built from); a response the handler originates has 0. *)
(***************************************************************************)
NoResponse ==
    [id |-> 0, status |-> 0, statusText |-> "", headers |-> {}, body |-> "undefined"]

\* Response.ok
Ok(r) == r.status >= 200 /\ r.status <= 299

\* new Response(null, {status, statusText}) made by the handler itself
OwnResponse(status, statusText) ==
    [id |-> 0, status |-> status, statusText |-> statusText,
     headers |-> {}, body |-> "null"]

(***************************************************************************)
(* Helper functions of src/index.js.                                       *)
(***************************************************************************)
\* mutant: a header the allow-list names is kept whatever it is
filterHeaders_m(headers, e) ==
    {pair \in headers :
        IF e.hasALLOWED_HEADERS
        THEN Includes(e.ALLOWED_HEADERS, pair[1])
        ELSE ~ ( \/ Includes(UNSIGNABLE_HEADERS, pair[1])
                 \/ StartsWith(pair[1], N_cf_) )}

filterHeaders(headers, e) ==
    {pair \in headers :
        ~ ( \/ Includes(UNSIGNABLE_HEADERS, pair[1])
            \/ StartsWith(pair[1], N_cf_)
            \/ (e.hasALLOWED_HEADERS /\ ~Includes(e.ALLOWED_HEADERS, pair[1])) )}

\* mutant: the status text is not copied
createHeadResponse_nost(r) ==
    [id |-> r.id, status |-> r.status, statusText |-> "",
     headers |-> r.headers, body |-> "null"]

\* mutant: the upstream body is passed on
createHeadResponse_m(r) ==
    [id |-> r.id, status |-> r.status, statusText |-> r.statusText,
     headers |-> r.headers, body |-> r.body]

createHeadResponse(r) ==
    [id |-> r.id, status |-> r.status, statusText |-> r.statusText,
     headers |-> r.headers, body |-> "null"]

CacheControlValue(cacheTtlSeconds) == <<"public, max-age=">> \o Digits(cacheTtlSeconds)

\* mutant: the response.ok test is missing
addCacheHeaders_m(r, cacheTtlSeconds) ==
    [id |-> r.id, status |-> r.status, statusText |-> r.statusText,
     headers |-> HeadersSet(r.headers, N_Cache_Control,
                            CacheControlValue(cacheTtlSeconds)),
     body |-> r.body]

addCacheHeaders(r, cacheTtlSeconds) ==
    IF ~Ok(r)
    THEN r
    ELSE [id |-> r.id, status |-> r.status, statusText |-> r.statusText,
          headers |-> HeadersSet(r.headers, N_Cache_Control,
                                 CacheControlValue(cacheTtlSeconds)),
          body |-> r.body]

\* mutant: the segment count is compared with 1
isListBucketRequest_m(e, path) ==
    \/ (e.BUCKET_NAME = "$path" /\ Len(path) < 1)
    \/ (e.BUCKET_NAME # "$path" /\ path = <<"">>)

isListBucketRequest(e, path) ==
    \/ (e.BUCKET_NAME = "$path" /\ Len(path) < 2)
    \/ (e.BUCKET_NAME # "$path" /\ path = <<"">>)

\* mutant: POST is let through
MethodAllowed_m(method) == Includes(<<"GET", "HEAD", "POST">>, method)

\* ['GET', 'HEAD'].includes(request.method)
MethodAllowed(method) == Includes(<<"GET", "HEAD">>, method)

\* the normalised path of lines 112-114
NormalizedPath(pathname) == StripTrailingSlash(StripLeadingSlash(pathname))

\* mutant: $host keeps the whole incoming hostname
UpstreamHostname_m(e, hostname) ==
    CASE e.BUCKET_NAME = "$path" -> e.B2_ENDPOINT
      [] e.BUCKET_NAME = "$host" -> hostname \o e.B2_ENDPOINT
      [] OTHER -> <<e.BUCKET_NAME>> \o e.B2_ENDPOINT

\* the hostname switch of lines 129-142
UpstreamHostname(e, hostname) ==
    CASE e.BUCKET_NAME = "$path" -> e.B2_ENDPOINT
      [] e.BUCKET_NAME = "$host" -> <<Head(hostname)>> \o e.B2_ENDPOINT
      [] OTHER -> <<e.BUCKET_NAME>> \o e.B2_ENDPOINT

\* the download rewrite of lines 159-167
RewritePath(e, u, path) ==
    IF JSString(e.RCLONE_DOWNLOAD) = "true"
    THEN IF e.BUCKET_NAME = "$path"
         THEN URLSetPathname(u, StripFilePrefix(path))
         ELSE URLSetPathname(u, StripFileBucketPrefix(path))
    ELSE u

\* the upstream URL built by lines 103-167
UpstreamURL(e, req) ==
    LET u0   == URLSetPort(URLSetProtocol(req.url, HTTPS_PROTOCOL), HTTPS_PORT)
        path == NormalizedPath(u0.pathname)
        u1   == URLSetHostname(u0, UpstreamHostname(e, u0.hostname))
    IN  RewritePath(e, u1, path)

\* client.sign(url, {method, headers}) of aws4fetch: the request it returns
\* has the given URL and method, and the given headers plus the signature's
Sign(urlString, method, headers) ==
    [url |-> urlString, method |-> method,
     headers |-> headers \cup {<<N_authorization, <<"AWS4-HMAC-SHA256">>>>,
                               <<N_x_amz_date, <<"date">>>>}]

NoRequest == [url |-> <<>>, method |-> "", headers |-> {}]

\* the response shaping of lines 233-241 and 249-257
ShapeResponse(requestMethod, r) ==
    IF requestMethod = "HEAD"
    THEN addCacheHeaders(createHeadResponse(r), BROWSER_CACHE_TTL_SECONDS)
    ELSE addCacheHeaders(r, BROWSER_CACHE_TTL_SECONDS)

(***************************************************************************)
(* Inputs: the incoming request, the configuration, the upstream's         *)
(* responses.                                                              *)
(***************************************************************************)
Methods == {"GET", "HEAD", "POST"}

Segs == {"", "file", "b"}

\* pathnames "/" + s1 + "/" + ... + "/" + sk, 1 <= k <= MaxSegs
Pathnames == UNION {{<<"">> \o s : s \in [1..k -> Segs]} : k \in 1..MaxSegs}

LocalOrigin == [protocol |-> "http:", hostname |-> <<"localhost">>, port |-> "8787"]

WorkerOrigin ==
    [protocol |-> "https:", hostname |-> <<"mybucket", "example", "workers", "dev">>,
     port |-> ""]

Origins == {LocalOrigin, WorkerOrigin}

B2_ENDPOINT == <<"s3", "us-west-004", "backblazeb2", "com">>

BucketNames == {"$path", "$host", "b"}

HeaderUniverse == {N_range, N_accept, N_if_none_match, N_cf_ray, N_cfx}

HeaderValue(name) == IF name = N_range THEN <<"bytes=0-99">> ELSE <<"v">>

HeadersOf(names) == {<<n, HeaderValue(n)>> : n \in names}

\* the values of ALLOWED_HEADERS that are tried when it is configured
AllowLists == { <<N_accept, N_if_none_match, N_cf_ray>>, <<N_range, N_accept, N_cfx>> }

MkRequest(method, origin, pathname, headers) ==
    [method |-> method,
     url |-> [protocol |-> origin.protocol, hostname |-> origin.hostname,
              port |-> origin.port, pathname |-> pathname],
     headers |-> headers]

MkEnv(bucket, allowList, rclone, hasAllowed, allowed) ==
    [BUCKET_NAME |-> bucket, B2_ENDPOINT |-> B2_ENDPOINT,
     ALLOW_LIST_BUCKET |-> allowList, RCLONE_DOWNLOAD |-> rclone,
     hasALLOWED_HEADERS |-> hasAllowed, ALLOWED_HEADERS |-> allowed]

\* every method, path, bucket mode and flag
RoutingInputs ==
    /\ \E m \in Methods, p \in Pathnames :
          request = MkRequest(m, WorkerOrigin, p, HeadersOf({N_accept}))
    /\ \E b \in BucketNames, a \in {Undefined, StrTrue, StrFalse, JSTrue},
          r \in {Undefined, StrTrue} :
          env = MkEnv(b, a, r, FALSE, <<>>)

\* every set of incoming headers, with and without an allow-list
HeaderInputs ==
    /\ \E m \in {"GET", "HEAD"}, h \in SUBSET HeaderUniverse :
          request = MkRequest(m, WorkerOrigin, <<"", "b", "file">>, HeadersOf(h))
    /\ \/ env = MkEnv("$path", Undefined, Undefined, FALSE, <<>>)
       \/ \E l \in AllowLists : env = MkEnv("$path", Undefined, Undefined, TRUE, l)

\* every origin of the incoming URL, for every bucket mode
OriginInputs ==
    /\ \E o \in Origins, h \in {{}, {N_range}} :
          request = MkRequest("GET", o, <<"", "file", "b", "b">>, HeadersOf(h))
    /\ \E b \in BucketNames, r \in {Undefined, StrTrue} :
          env = MkEnv(b, Undefined, r, FALSE, <<>>)

UpstreamStatuses == {200, 206, 403, 404}

StatusText(status) ==
    CASE status = 200 -> "OK"
      [] status = 206 -> "Partial Content"
      [] status = 403 -> "Forbidden"
      [] status = 404 -> "Not Found"

\* the responses the upstream can give to the id-th fetch
UpstreamResponses(id) ==
    { [id |-> id, status |-> s, statusText |-> StatusText(s),
       headers |-> {<<N_etag, <<"e">>>>}
                   \cup (IF cr THEN {<<N_content_range, <<"bytes 0-99/1000">>>>} ELSE {})
                   \cup (IF cc THEN {<<N_cache_control, <<"no-store">>>>} ELSE {}),
       body |-> b] :
      s \in UpstreamStatuses, cr \in BOOLEAN, cc \in BOOLEAN, b \in {"null", "stream"} }

Init ==
    /\ (RoutingInputs \/ HeaderInputs \/ OriginInputs)
    /\ pc = "start"
    /\ url = request.url
    /\ signedRequest = NoRequest
    /\ signCalls = <<>>
    /\ fetches = <<>>
    /\ received = <<>>
    /\ inflight = 0
    /\ attempts = 0
    /\ response = NoResponse
    /\ finalResponse = NoResponse
    /\ log = <<>>
    /\ cancelled = {}
    /\ result = NoResponse

(***************************************************************************)
(* The handler, fetch(request, env), in steps that end where it awaits or  *)
(* returns.                                                                *)
(***************************************************************************)
\* lines 96-101
MethodNotAllowed ==
    /\ pc = "start"
    /\ ~MethodAllowed(request.method)
    /\ result' = OwnResponse(405, "Method Not Allowed")
    /\ pc' = "done"
    /\ UNCHANGED <<received, request, env, url, signedRequest, signCalls, fetches, inflight,
                   attempts, response, finalResponse, log, cancelled>>

\* the test of line 117
ListBucketDenied(e, req) ==
    /\ isListBucketRequest(e, NormalizedPath(req.url.pathname))
    /\ JSString(e.ALLOW_LIST_BUCKET) # "true"

\* lines 103-122
ListBucketRejected ==
    /\ pc = "start"
    /\ MethodAllowed(request.method)
    /\ ListBucketDenied(env, request)
    /\ result' = OwnResponse(404, "Not Found")
    /\ pc' = "done"
    /\ UNCHANGED <<received, request, env, url, signedRequest, signCalls, fetches, inflight,
                   attempts, response, finalResponse, log, cancelled>>

\* mutant: the client's method is signed
SignMethod_m(requestMethod) == requestMethod

\* the method given to client.sign (line 175)
SignMethod(requestMethod) == "GET"

\* mutant: the range header is looked for in the client's headers
TakesRangePath_m(req, sr) == HeadersHas(req.headers, N_range)

\* the test of line 183
TakesRangePath(req, sr) == HeadersHas(sr.headers, N_range)

\* lines 124-184: build the upstream URL, filter the headers, sign, and
\* choose the range path or the plain path
SignRequest ==
    /\ pc = "start"
    /\ MethodAllowed(request.method)
    /\ ~ListBucketDenied(env, request)
    /\ url' = UpstreamURL(env, request)
    /\ LET headers == filterHeaders(request.headers, env)
           method  == SignMethod(request.method)
       IN  /\ signCalls' = Append(signCalls, [url |-> URLToString(url'),
                                              method |-> method,
                                              headers |-> headers])
           /\ signedRequest' = Sign(URLToString(url'), method, headers)
    /\ IF TakesRangePath(request, signedRequest')
       THEN pc' = "range_fetch" /\ attempts' = RANGE_RETRY_ATTEMPTS
       ELSE pc' = "plain_fetch" /\ attempts' = attempts
    /\ UNCHANGED <<received, request, env, fetches, inflight, response, finalResponse,
                   log, cancelled, result>>

\* the arguments of fetch on the range path (lines 190-194)
RangeFetchInit(sr) == [url |-> sr.url, method |-> sr.method, headers |-> sr.headers]

\* fetch(signedRequest) on the plain path (line 247)
PlainFetchInit(sr) == [url |-> sr.url, method |-> sr.method, headers |-> sr.headers]

\* mutant: every attempt signs again
RangeIssueFetch_m ==
    /\ pc = "range_fetch"
    /\ LET call == [url |-> URLToString(url), method |-> SignMethod(request.method),
                    headers |-> filterHeaders(request.headers, env)]
       IN  /\ signCalls' = IF fetches = <<>> THEN signCalls ELSE Append(signCalls, call)
           /\ signedRequest' = Sign(call.url, call.method, call.headers)
    /\ fetches' = Append(fetches, RangeFetchInit(signedRequest'))
    /\ inflight' = inflight + 1
    /\ pc' = "range_await"
    /\ UNCHANGED <<received, request, env, url, attempts, response,
                   finalResponse, log, cancelled, result>>

\* line 190: the fetch of one attempt is issued
RangeIssueFetch ==
    /\ pc = "range_fetch"
    /\ fetches' = Append(fetches, RangeFetchInit(signedRequest))
    /\ inflight' = inflight + 1
    /\ pc' = "range_await"
    /\ UNCHANGED <<received, request, env, url, signedRequest, signCalls, attempts, response,
                   finalResponse, log, cancelled, result>>

\* lines 225-241: the loop is over; att, resp, fin, lg are the values of
\* attempts, response, finalResponse and the log at that point
RangeFinish(att, resp, fin, lg) ==
    LET final == IF fin = NoResponse THEN resp ELSE fin
    IN  /\ finalResponse' = final
        /\ log' = IF att <= 0 /\ ~HeadersHas(final.headers, N_content_range)
                  THEN Append(lg, <<"exhausted", RANGE_RETRY_ATTEMPTS>>)
                  ELSE lg
        /\ result' = ShapeResponse(request.method, final)
        /\ pc' = "done"

\* mutant: the loop goes on when no attempt is left
LoopContinues_ge(att) == att >= 0

\* mutant: the loop gives up one attempt early
LoopContinues_m(att) == att > 1

\* the loop condition of line 223
LoopContinues(att) == att > 0

\* mutant: the last response is discarded too
WillRetry_m(att) == att >= 0

\* the test of line 207: the response is discarded and another attempt made
WillRetry(att) == att > 0

\* line 223: the end of the loop body
LoopEnd(att, resp, fin, lg) ==
    IF LoopContinues(att)
    THEN /\ pc' = "range_fetch"
         /\ finalResponse' = fin
         /\ log' = lg
         /\ result' = result
    ELSE RangeFinish(att, resp, fin, lg)

\* mutant: content-range only counts on a 206
HasContentRange_m(r) == HeadersHas(r.headers, N_content_range) /\ r.status = 206

\* the test of line 195
HasContentRange(r) == HeadersHas(r.headers, N_content_range)

\* mutant: the first attempt counts as a retry
RetriedBefore_m(att) == att <= RANGE_RETRY_ATTEMPTS

\* the test of line 197
RetriedBefore(att) == att < RANGE_RETRY_ATTEMPTS

\* lines 195-202: the response has content-range
RangeOnContentRange ==
    /\ pc = "range_await"
    /\ \E r \in UpstreamResponses(Len(fetches)) :
          /\ HasContentRange(r)
          /\ response' = r
          /\ received' = Append(received, r)
          /\ RangeFinish(attempts, r, r,
                         IF RetriedBefore(attempts)
                         THEN Append(log, <<"succeeded", attempts>>)
                         ELSE log)
    /\ inflight' = inflight - 1
    /\ UNCHANGED <<request, env, url, signedRequest, signCalls, fetches, attempts,
                   cancelled>>

\* mutant: the body is never cancelled
BodyPresent_m(r) == FALSE

\* the test of line 209
BodyPresent(r) == r.body # "null"

\* lines 203-217: an ok response without content-range
RangeOnOkNoContentRange ==
    /\ pc = "range_await"
    /\ \E r \in UpstreamResponses(Len(fetches)) :
          /\ ~HasContentRange(r)
          /\ Ok(r)
          /\ response' = r
          /\ received' = Append(received, r)
          /\ LET lg == Append(log, <<"retry", attempts - 1>>)
             IN  IF WillRetry(attempts - 1)
                 THEN IF BodyPresent(r)
                      THEN /\ pc' = "range_cancel"
                           /\ log' = lg
                           /\ UNCHANGED <<finalResponse, result>>
                      ELSE LoopEnd(attempts - 1, r, finalResponse, lg)
                 ELSE LoopEnd(attempts - 1, r, r, lg)
    /\ attempts' = attempts - 1
    /\ inflight' = inflight - 1
    /\ UNCHANGED <<request, env, url, signedRequest, signCalls, fetches, cancelled>>

\* line 211: response.body.cancel() has resolved
RangeCancelBody ==
    /\ pc = "range_cancel"
    /\ cancelled' = cancelled \cup {response.id}
    /\ LoopEnd(attempts, response, finalResponse, log)
    /\ UNCHANGED <<received, request, env, url, signedRequest, signCalls, fetches, inflight,
                   attempts, response>>

\* mutant: the break of line 221 is missing
RangeOnNotOk_m ==
    /\ pc = "range_await"
    /\ \E r \in UpstreamResponses(Len(fetches)) :
          /\ ~HasContentRange(r)
          /\ ~Ok(r)
          /\ response' = r
          /\ received' = Append(received, r)
          /\ LoopEnd(attempts, r, r, log)
    /\ inflight' = inflight - 1
    /\ UNCHANGED <<request, env, url, signedRequest, signCalls, fetches, attempts,
                   cancelled>>

\* lines 218-222: a response that is not ok and has no content-range
RangeOnNotOk ==
    /\ pc = "range_await"
    /\ \E r \in UpstreamResponses(Len(fetches)) :
          /\ ~HasContentRange(r)
          /\ ~Ok(r)
          /\ response' = r
          /\ received' = Append(received, r)
          /\ RangeFinish(attempts, r, r, log)
    /\ inflight' = inflight - 1
    /\ UNCHANGED <<request, env, url, signedRequest, signCalls, fetches, attempts,
                   cancelled>>

\* mutant: the rejection is caught and the loop goes on
RangeFetchFails_m ==
    /\ pc = "range_await"
    /\ inflight' = inflight - 1
    /\ pc' = "range_fetch"
    /\ UNCHANGED <<received, request, env, url, signedRequest, signCalls, fetches, attempts,
                   response, finalResponse, log, cancelled, result>>

\* line 190: the awaited fetch rejects, and the handler's promise with it
RangeFetchFails ==
    /\ pc = "range_await"
    /\ inflight' = inflight - 1
    /\ pc' = "failed"
    /\ UNCHANGED <<received, request, env, url, signedRequest, signCalls, fetches, attempts,
                   response, finalResponse, log, cancelled, result>>

\* line 247: the single fetch of the plain path is issued
PlainIssueFetch ==
    /\ pc = "plain_fetch"
    /\ fetches' = Append(fetches, PlainFetchInit(signedRequest))
    /\ inflight' = inflight + 1
    /\ pc' = "plain_await"
    /\ UNCHANGED <<received, request, env, url, signedRequest, signCalls, attempts, response,
                   finalResponse, log, cancelled, result>>

\* lines 247-257: the response of the plain path is shaped and returned
PlainOnResponse ==
    /\ pc = "plain_await"
    /\ \E r \in UpstreamResponses(Len(fetches)) :
          /\ response' = r
          /\ received' = Append(received, r)
          /\ result' = ShapeResponse(request.method, r)
    /\ inflight' = inflight - 1
    /\ pc' = "done"
    /\ UNCHANGED <<request, env, url, signedRequest, signCalls, fetches, attempts,
                   finalResponse, log, cancelled>>

\* line 247: the awaited fetch rejects
PlainFetchFails ==
    /\ pc = "plain_await"
    /\ inflight' = inflight - 1
    /\ pc' = "failed"
    /\ UNCHANGED <<received, request, env, url, signedRequest, signCalls, fetches, attempts,
                   response, finalResponse, log, cancelled, result>>

Next ==
    \/ MethodNotAllowed
    \/ ListBucketRejected
    \/ SignRequest
    \/ RangeIssueFetch
    \/ RangeOnContentRange
    \/ RangeOnOkNoContentRange
    \/ RangeCancelBody
    \/ RangeOnNotOk
    \/ RangeFetchFails
    \/ PlainIssueFetch
    \/ PlainOnResponse
    \/ PlainFetchFails

Spec == Init /\ [][Next]_vars

(***************************************************************************)
(* Vocabulary of the properties.                                           *)
(***************************************************************************)
\* the handler took the range path: the signed headers contain range
InRangePath == \E p \in signedRequest.headers : p[1] = N_range

\* a response carries a content-range header
WithContentRange(r) == \E p \in r.headers : p[1] = N_content_range

\* a response has a success (2xx) status
Success(r) == r.status \in 200..299

\* the cache-control headers of a response
CacheControlOf(r) == {p \in r.headers : p[1] = N_cache_control}

\* the header Cache-Control: public, max-age=2592000
MonthLongCacheControl ==
    <<N_cache_control, <<"public, max-age=", "2", "5", "9", "2", "0", "0", "0">>>>

\* the final upstream response: the last one received
LastReceived == received[Len(received)]

\* the number of diagnostics of one kind
CountLog(kind) == Cardinality({i \in 1..Len(log) : log[i][1] = kind})

\* the handler returned a response of its own making
Rejected(status) ==
    /\ pc = "done"
    /\ result.status = status
    /\ result.body = "null"
    /\ result.headers = {}
    /\ result.id = 0

\* the request was handed to the signer and is on its way upstream
Forwarded ==
    /\ Len(signCalls) = 1
    /\ pc \in {"range_fetch", "plain_fetch"} \/ Len(fetches) >= 1

\* the normalised path of the incoming request is a bucket listing
ListBucketPath ==
    LET path == NormalizedPath(request.url.pathname)
    IN  IF env.BUCKET_NAME = "$path" THEN Len(path) < 2 ELSE path = <<"">>

\* list-bucket access is explicitly enabled
ListBucketEnabled == env.ALLOW_LIST_BUCKET \in {StrTrue, JSTrue}

(***************************************************************************)
(* Properties.                                                             *)
(***************************************************************************)
\* C1: on the range path, when every upstream response is 2xx without
\* content-range, the handler has made exactly 3 fetches when it returns,
\* returns the 3rd response (not a failure, not an earlier response), and
\* has written exactly one exhaustion diagnostic.
C1_ExhaustedAfterThreeAttempts ==
    ( /\ InRangePath
      /\ \A i \in 1..Len(received) :
            Success(received[i]) /\ ~WithContentRange(received[i]) )
    => /\ Len(fetches) <= 3
       /\ Len(received) = 3 => pc = "done"
       /\ pc = "done" =>
             /\ Len(fetches) = 3
             /\ Len(received) = 3
             /\ result.id = 3
             /\ result.status = received[3].status
             /\ result.statusText = received[3].statusText
             /\ CountLog("exhausted") = 1

C1_Witness ==
    /\ InRangePath
    /\ pc = "done"
    /\ Len(received) = 3
    /\ \A i \in 1..3 : received[i].status = 200 /\ ~WithContentRange(received[i])
    /\ result.id = 3
    /\ CountLog("exhausted") = 1

\* C2: on the range path a received response with content-range ends the
\* loop and is the one shaped and returned, whatever its status; if it is
\* the k-th response, exactly k fetches were made.
C2_ContentRangeEndsLoop ==
    InRangePath =>
        \A k \in 1..Len(received) :
            WithContentRange(received[k]) =>
                /\ k = Len(received)
                /\ Len(fetches) = k
                /\ pc = "done"
                /\ finalResponse = received[k]
                /\ result.id = k
                /\ result.status = received[k].status
                /\ result.statusText = received[k].statusText

C2_Witness ==
    /\ InRangePath
    /\ pc = "done"
    /\ Len(received) = 2
    /\ received[1].status = 200 /\ ~WithContentRange(received[1])
    /\ received[2].status = 206 /\ WithContentRange(received[2])
    /\ Len(fetches) = 2
    /\ result.id = 2
    /\ result.status = 206

\* C3: on the range path a received response that is not 2xx and has no
\* content-range is never retried: it is the last fetch, and it is returned
\* with its status, status text and headers unchanged.
C3_NotOkNeverRetried ==
    InRangePath =>
        \A k \in 1..Len(received) :
            (~Success(received[k]) /\ ~WithContentRange(received[k])) =>
                /\ k = Len(received)
                /\ Len(fetches) = k
                /\ pc = "done"
                /\ result.id = k
                /\ result.status = received[k].status
                /\ result.statusText = received[k].statusText
                /\ result.headers = received[k].headers

C3_Witness ==
    /\ InRangePath
    /\ pc = "done"
    /\ Len(received) = 1
    /\ received[1].status = 403 /\ ~WithContentRange(received[1])
    /\ Len(fetches) = 1
    /\ result.status = 403

\* C4: a request whose method is neither GET nor HEAD gets a 405 with an
\* empty body, for every path and configuration, and neither the signer nor
\* an upstream fetch is ever invoked for it.
C4_MethodNotAllowed ==
    request.method \notin {"GET", "HEAD"} =>
        /\ signCalls = <<>>
        /\ fetches = <<>>
        /\ pc \in {"start", "done"}
        /\ pc = "done" => Rejected(405) /\ result.statusText = "Method Not Allowed"

C4_Witness ==
    /\ request.method = "POST"
    /\ ListBucketPath
    /\ ~ListBucketEnabled
    /\ Rejected(405)

\* C5: a GET/HEAD request for a bucket listing gets a 404 with an empty body
\* and is neither signed nor fetched while list-bucket access is not
\* enabled; with list-bucket access enabled it is forwarded.
C5_ListBucketRejected ==
    (request.method \in {"GET", "HEAD"} /\ ListBucketPath) =>
        IF ListBucketEnabled
        THEN pc # "start" => Forwarded
        ELSE /\ signCalls = <<>>
             /\ fetches = <<>>
             /\ pc \in {"start", "done"}
             /\ pc = "done" => Rejected(404) /\ result.statusText = "Not Found"

C5_Witness ==
    /\ request.method = "GET"
    /\ env.BUCKET_NAME = "$path"
    /\ request.url.pathname = <<"", "b", "">>
    /\ env.ALLOW_LIST_BUCKET = StrFalse
    /\ Rejected(404)
    /\ fetches = <<>>

\* C6: the headers passed to the signer are exactly the incoming headers
\* that are not unsignable, do not start with cf- and, when an allow-list is
\* configured, are on it; each is passed with its value unchanged.
C6_SignedHeadersFiltered ==
    \A i \in 1..Len(signCalls) :
        LET passed == signCalls[i].headers
            Dropped(name) ==
                \/ \E j \in 1..Len(UNSIGNABLE_HEADERS) : UNSIGNABLE_HEADERS[j] = name
                \/ (Len(name) >= 3 /\ name[1] = "c" /\ name[2] = "f" /\ name[3] = "-")
                \/ ( /\ env.hasALLOWED_HEADERS
                     /\ \A j \in 1..Len(env.ALLOWED_HEADERS) :
                           env.ALLOWED_HEADERS[j] # name )
        IN  /\ \A p \in passed : ~Dropped(p[1])
            /\ passed \subseteq request.headers
            /\ \A p \in request.headers : ~Dropped(p[1]) => p \in passed

C6_Witness ==
    /\ Len(signCalls) = 1
    /\ request.headers = HeadersOf(HeaderUniverse)
    /\ env.hasALLOWED_HEADERS
    /\ env.ALLOWED_HEADERS = <<N_accept, N_if_none_match, N_cf_ray>>
    /\ signCalls[1].headers = {<<N_accept, <<"v">>>>}

\* C7: on both paths, the response returned for HEAD has no body and the
\* status of the final upstream response; the response returned for GET has
\* the final upstream response's body.
C7_HeadHasNoBody ==
    (pc = "done" /\ Len(received) >= 1) =>
        /\ request.method = "HEAD" =>
              /\ result.body = "null"
              /\ result.status = LastReceived.status
        /\ request.method = "GET" =>
              /\ result.body = LastReceived.body
              /\ result.id = LastReceived.id

C7_Witness ==
    /\ pc = "done"
    /\ InRangePath
    /\ request.method = "HEAD"
    /\ Len(received) = 1
    /\ LastReceived.status = 200
    /\ LastReceived.body = "stream"
    /\ result.body = "null"
    /\ result.status = 200

\* C8: the returned response has Cache-Control: public, max-age=2592000 as
\* its only cache-control when the final upstream response is 2xx, and
\* otherwise keeps the cache-control the upstream sent; for GET and HEAD, on
\* both paths and in every way the retry loop ends.
C8_CacheControlOnSuccessOnly ==
    (pc = "done" /\ Len(received) >= 1) =>
        IF Success(LastReceived)
        THEN CacheControlOf(result) = {MonthLongCacheControl}
        ELSE CacheControlOf(result) = CacheControlOf(LastReceived)

C8_Witness ==
    /\ pc = "done"
    /\ InRangePath
    /\ Len(received) = 3
    /\ LastReceived.status = 200
    /\ CacheControlOf(LastReceived) = {<<N_cache_control, <<"no-store">>>>}
    /\ CacheControlOf(result) = {MonthLongCacheControl}

\* C9: a request that passes the method and list-bucket checks is signed
\* exactly once, before the first fetch; every fetch, retries included,
\* uses the URL, method and headers of that one signed request.
C9_SignedExactlyOnce ==
    /\ Len(signCalls) <= 1
    /\ (pc \notin {"start", "done"} \/ Len(fetches) >= 1) => Len(signCalls) = 1
    /\ (pc = "done" /\ fetches = <<>>) => (Rejected(405) \/ Rejected(404))
    /\ Len(signCalls) = 1 =>
          /\ signedRequest.url = signCalls[1].url
          /\ signedRequest.method = signCalls[1].method
          /\ signCalls[1].headers \subseteq signedRequest.headers
    /\ \A i \in 1..Len(fetches) :
          /\ fetches[i].url = signedRequest.url
          /\ fetches[i].method = signedRequest.method
          /\ fetches[i].headers = signedRequest.headers

C9_Witness ==
    /\ pc = "done"
    /\ Len(fetches) = 3
    /\ Len(signCalls) = 1
    /\ fetches[3] = fetches[1]

\* C10: every upstream fetch, on both paths and on every attempt, uses the
\* method GET, whether the client sent GET or HEAD.
C10_UpstreamMethodIsGet ==
    \A i \in 1..Len(fetches) : fetches[i].method = "GET"

C10_Witness ==
    /\ request.method = "HEAD"
    /\ InRangePath
    /\ Len(fetches) = 3
    /\ fetches[3].method = "GET"

\* the incoming headers had a range header
ClientSentRange == \E p \in request.headers : p[1] = N_range

\* the download rewrite is switched on
DownloadRewrite == env.RCLONE_DOWNLOAD \in {StrTrue, JSTrue}

\* number of upstream fetches that ended without a response
FailedFetches == Len(fetches) - Len(received) - inflight

\* C11: when the signed headers have no range header (also when the client
\* sent one and the allow-list dropped it), exactly one upstream fetch is
\* made and its response is shaped and returned whatever its status and
\* headers; nothing is retried, cancelled or logged.
C11_NoRangeSingleFetch ==
    (Len(signCalls) = 1 /\ ~InRangePath) =>
        /\ Len(fetches) <= 1
        /\ cancelled = {}
        /\ log = <<>>
        /\ Len(received) = 1 => pc = "done"
        /\ pc = "done" =>
              /\ Len(fetches) = 1
              /\ Len(received) = 1
              /\ result.id = 1
              /\ result.status = received[1].status
              /\ result.statusText = received[1].statusText

C11_Witness ==
    /\ ClientSentRange
    /\ env.hasALLOWED_HEADERS
    /\ ~InRangePath
    /\ pc = "done"
    /\ Len(fetches) = 1
    /\ received[1].status = 200
    /\ ~WithContentRange(received[1])
    /\ result.id = 1

\* C12: every upstream fetch goes to https, port 443, and to the host the
\* bucket mode gives: the endpoint for $path (the path, bucket segment
\* included, is left as it came unless the download rewrite is on), the first
\* label of the incoming host before the endpoint for $host, the bucket name
\* before the endpoint otherwise.
C12_UpstreamHost ==
    \A i \in 1..Len(fetches) :
        LET protocol == fetches[i].url[1]
            hostname == fetches[i].url[2]
            port     == fetches[i].url[3]
            pathname == fetches[i].url[4]
        IN  /\ protocol = "https:"
            /\ port \in {"", "443"}
            /\ env.BUCKET_NAME = "$path" =>
                  /\ hostname = env.B2_ENDPOINT
                  /\ ~DownloadRewrite => pathname = request.url.pathname
            /\ env.BUCKET_NAME = "$host" =>
                  hostname = <<request.url.hostname[1]>> \o env.B2_ENDPOINT
            /\ env.BUCKET_NAME \notin {"$path", "$host"} =>
                  hostname = <<env.BUCKET_NAME>> \o env.B2_ENDPOINT

C12_Witness ==
    /\ env.BUCKET_NAME = "$host"
    /\ request.url.protocol = "http:"
    /\ request.url.port = "8787"
    /\ Len(fetches) = 1
    /\ fetches[1].url[1] = "https:"
    /\ fetches[1].url[2] = <<"localhost", "s3", "us-west-004", "backblazeb2", "com">>
    /\ fetches[1].url[3] = ""

\* C13: when an upstream fetch fails at the transport level, on either
\* path and on any attempt, the handler ends in failure: that fetch is its
\* last and no response is returned.
C13_TransportFailureEnds ==
    FailedFetches > 0 =>
        /\ pc = "failed"
        /\ FailedFetches = 1
        /\ inflight = 0
        /\ result = NoResponse

C13_Witness ==
    /\ InRangePath
    /\ pc = "failed"
    /\ Len(fetches) = 2
    /\ Len(received) = 1
    /\ result = NoResponse

\* C14: the retry loop is sequential: at most one fetch is in flight, none
\* while a body is being cancelled, and an attempt after the first is issued
\* only when the one before has answered and, if that response had a body,
\* the body has been cancelled.
C14_AttemptsAreSequential ==
    /\ inflight \in {0, 1}
    /\ inflight = 1 => Len(fetches) = Len(received) + 1
    /\ pc = "range_cancel" => inflight = 0 /\ Len(fetches) = Len(received)
    /\ InRangePath =>
          \A i \in 2..Len(fetches) :
              /\ Len(received) >= i - 1
              /\ received[i - 1].body # "null" => (i - 1) \in cancelled

C14_Witness ==
    /\ InRangePath
    /\ pc = "range_await"
    /\ Len(fetches) = 3
    /\ received[1].body = "stream"
    /\ received[2].body = "null"
    /\ cancelled = {1}

\* a path, normalised as the handler normalises it, is a bucket listing
IsListing(pathname) ==
    LET path == NormalizedPath(pathname)
    IN  IF env.BUCKET_NAME = "$path" THEN Len(path) < 2 ELSE path = <<"">>

\* the bucket the request is for, where the mode names one
RequestBucket ==
    IF env.BUCKET_NAME = "$host" THEN request.url.hostname[1] ELSE env.BUCKET_NAME

\* a path as the pathname of a URL
AsPathname(p) == IF Len(p) >= 2 /\ p[1] = "" THEN p ELSE <<"">> \o p

\* the received responses that are 2xx and have no content-range
IgnoredRanges ==
    {i \in 1..Len(received) : Success(received[i]) /\ ~WithContentRange(received[i])}

\* the headers of a response other than cache-control
OtherHeaders(r) == {p \in r.headers : p[1] # N_cache_control}

\* C15: with list-bucket access not enabled, no request that is sent
\* upstream has a bucket-listing path, the download rewrite included.
\* (Refuted: the listing test is made on the path before the rewrite.)
C15_NoListingForwarded ==
    ~ListBucketEnabled =>
        \A i \in 1..Len(fetches) : ~IsListing(fetches[i].url[4])

\* C16: on the range path a body is cancelled only for a 2xx response
\* without content-range after which attempts remain, and the response that
\* is chosen and returned is never one whose body was cancelled.
C16_ReturnedBodyNotCancelled ==
    InRangePath =>
        /\ \A id \in cancelled :
              /\ id \in IgnoredRanges
              /\ RANGE_RETRY_ATTEMPTS - id > 0
        /\ finalResponse.id \notin cancelled
        /\ pc = "done" => result.id \notin cancelled

C16_Witness ==
    /\ InRangePath
    /\ request.method = "GET"
    /\ pc = "done"
    /\ cancelled = {1, 2}
    /\ result.id = 3
    /\ result.body = "stream"

\* C17: on the range path attempts starts at 3, stays within 0..3 and is 3
\* less the number of 2xx responses without content-range received; no
\* fetch is issued or pending when it is 0, and at most 3 fetches are made.
C17_AttemptsBounded ==
    InRangePath =>
        /\ attempts \in 0..3
        /\ attempts = 3 - Cardinality(IgnoredRanges)
        /\ Len(fetches) <= 3
        /\ attempts = 0 => pc = "done"
        /\ fetches = <<>> => attempts = 3

C17_Witness ==
    /\ InRangePath
    /\ pc = "range_await"
    /\ Len(fetches) = 3
    /\ attempts = 1

\* C18: with the download rewrite on, the upstream path is the normalised
\* path less a leading file/ ($path) or file/{bucket}/ (other modes, the
\* bucket being the request's); without that prefix the normalised path goes
\* unstripped, and with the rewrite off the incoming path goes unchanged.
\* (Refuted: in the other modes any segment after file/ is stripped.)
C18_DownloadRewritePath ==
    \A i \in 1..Len(fetches) :
        LET path == NormalizedPath(request.url.pathname)
            stripped ==
                IF env.BUCKET_NAME = "$path"
                THEN IF Len(path) >= 2 /\ path[1] = "file"
                     THEN SubSeq(path, 2, Len(path)) ELSE path
                ELSE IF Len(path) >= 3 /\ path[1] = "file" /\ path[2] = RequestBucket
                     THEN SubSeq(path, 3, Len(path)) ELSE path
        IN  fetches[i].url[4] =
                IF DownloadRewrite THEN AsPathname(stripped) ELSE request.url.pathname

\* C19: the returned response has the status, status text and every header
\* but cache-control of the final upstream response, for GET and HEAD on
\* both paths; a response of the handler's own making is a 405 or a 404 and
\* is returned only when nothing was sent upstream.
C19_UpstreamPassedThrough ==
    pc = "done" =>
        IF Len(received) >= 1
        THEN /\ result.id = LastReceived.id
             /\ result.status = LastReceived.status
             /\ result.statusText = LastReceived.statusText
             /\ OtherHeaders(result) = OtherHeaders(LastReceived)
        ELSE /\ result.id = 0
             /\ result.status \in {404, 405}
             /\ fetches = <<>>

C19_Witness ==
    /\ pc = "done"
    /\ ~InRangePath
    /\ request.method = "HEAD"
    /\ Len(received) = 1
    /\ LastReceived.status = 404
    /\ result.status = 404
    /\ result.statusText = "Not Found"
    /\ result.id = 1
    /\ <<N_etag, <<"e">>>> \in result.headers

\* C20: on the range path one retry diagnostic is written per 2xx response
\* without content-range; the succeeded-after-retry diagnostic is written
\* exactly for a response with content-range on the 2nd or 3rd attempt; the
\* exhaustion diagnostic is written exactly when the loop has ended with
\* attempts 0 and a final response without content-range.
C20_Diagnostics ==
    InRangePath =>
        /\ CountLog("retry") = Cardinality(IgnoredRanges)
        /\ CountLog("succeeded") =
              Cardinality({k \in 2..Len(received) : WithContentRange(received[k])})
        /\ CountLog("exhausted") =
              IF pc = "done" /\ attempts = 0 /\ ~WithContentRange(finalResponse)
              THEN 1 ELSE 0
        /\ Len(log) = CountLog("retry") + CountLog("succeeded") + CountLog("exhausted")
        /\ ( /\ Len(received) >= 1
             /\ WithContentRange(LastReceived) \/ ~Success(LastReceived) )
           => CountLog("exhausted") = 0

C20_Witness ==
    /\ InRangePath
    /\ pc = "done"
    /\ Len(received) = 3
    /\ WithContentRange(received[3])
    /\ log = << <<"retry", 2>>, <<"retry", 1>>, <<"succeeded", 1>> >>

====
